---------------------------- MODULE Spec2Model ----------------------------
(***************************************************************************)
(* A model of the three pipelines of the repository:                       *)
(*   - src/defi_llama_validation.py : the historical-series fetcher        *)
(*   - src/dune_to_sheets.py        : the query-export pipeline (DuneClient,*)
(*                                    CSVExporter, DuneToCSV, main)        *)
(*   - src/validation.py            : the cross-source validator           *)
(* One run of the model is one run of one entry point (variable pipeline). *)
(* Remote responses, directory contents and file contents are inputs.      *)
(***************************************************************************)
EXTENDS Integers, Sequences, FiniteSets, TLC

(* ------------------------------ bounds --------------------------------- *)
MaxVaults == 3      \* longest vault list read from morpho_vaults.json
MaxPolls == 4       \* the poll counter (a history variable) saturates here
MaxRows == 2        \* most rows of a source CSV in the merge specification
MaxCalls == 3       \* most CSVExporter calls on one file name

(* ------------------------- program constants --------------------------- *)
NumQueries == 4     \* len(query_ids) in dune_to_sheets.main

VARIABLES
    pipeline,       \* which entry point this run executes
    pc,             \* position of the running entry point
    error,          \* the error raised or reported last ("" when none)
    apiKeySet,      \* DUNE_API_KEY is present in the environment
    vaultsJson,     \* morpho_vaults.json: [status, content]
    idx,            \* 1-based position of the item loop (vault, query, pair)
    \* historical-series fetcher
    vaults,         \* the list json.load returned
    visits,         \* history: per vault visited, the response and the effect
    outFiles,       \* OUTPUT_DIR: file name -> content (NoFile when absent)
    \* query-export pipeline
    fresh,          \* execute_fresh of the query_to_csv call
    reqLog,         \* history: requests issued for the current query
    polls,          \* history: number of status polls, saturating at MaxPolls
    lastPoll,       \* history: what the last status poll reported
    remote,         \* state of the execution at the remote API
    queryLog,       \* history: per query processed, how query_to_csv ended
    csvFiles,       \* output dir of CSVExporter: query id -> content
    \* cross-source validator
    defillamaDir,   \* data/defillama: Missing or file name -> CSV
    duneDir,        \* data/dune: Missing or file name -> CSV
    pairs,          \* matching_pairs, in the order find_matching_files built
    pairLog,        \* history: per pair processed, what happened
    validationFiles,\* data/validation: file name -> merged table
    \* CSVExporter on one file name
    target,         \* the file: [exists, lines]
    calls           \* history: the calls made on it

envVars == <<apiKeySet, vaultsJson>>
fetcherVars == <<vaults, visits, outFiles>>
exportVars == <<fresh, reqLog, polls, lastPoll, remote, queryLog, csvFiles>>
validatorVars == <<defillamaDir, duneDir, pairs, pairLog, validationFiles>>
exporterVars == <<target, calls>>
vars == <<pipeline, pc, error, idx, envVars, fetcherVars, exportVars,
          validatorVars, exporterVars>>

(* ------------------------------ helpers -------------------------------- *)
SeqsUpTo(S, n) == UNION {[1..k -> S] : k \in 0..n}

Last(s) == s[Len(s)]

Min(a, b) == IF a <= b THEN a ELSE b

NoFile == <<>>

\* An exception or a reported error: its message and, for a failed
\* execution, the state the message names.
Err(msg) == [msg |-> msg, state |-> ""]

NoError == Err("")

(* ======================================================================= *)
(* morpho_vaults.json                                                      *)
(* ======================================================================= *)
\* A vault descriptor: pool is pool_id, name stands for the triple
\* project/chain/symbol that names the output file.  Vaults 1 and 3 share
\* their name, so the later one overwrites the earlier one's file.
VaultSet ==
    { [pool |-> 1, name |-> "a"],
      [pool |-> 2, name |-> "b"],
      [pool |-> 3, name |-> "a"] }

VaultNames == {v.name : v \in VaultSet}

VaultsJsonStates ==
    { [status |-> "missing", content |-> <<>>],
      [status |-> "invalid", content |-> <<>>] }
    \cup { [status |-> "ok", content |-> c] : c \in SeqsUpTo(VaultSet, MaxVaults) }

\* The validator only counts the list: one content is enough there.
VaultsJsonSmall ==
    { [status |-> "missing", content |-> <<>>],
      [status |-> "invalid", content |-> <<>>],
      [status |-> "ok", content |-> <<[pool |-> 1, name |-> "a"]>>] }

\* open('morpho_vaults.json') followed by json.load
JsonLoadError(file) ==
    CASE file.status = "missing" -> "FileNotFoundError"
      [] file.status = "invalid" -> "JSONDecodeError"
      [] OTHER -> ""

\* validation.load_morpho_vaults: both errors are caught, printed, and an
\* empty list is returned.
load_morpho_vaults(file) ==
    IF file.status = "ok"
    THEN [vaults |-> file.content, printed |-> NoError]
    ELSE [vaults |-> <<>>, printed |-> Err(JsonLoadError(file))]

(* ======================================================================= *)
(* Historical-series fetcher (src/defi_llama_validation.py)                *)
(* ======================================================================= *)
\* What requests.get does for one pool: it raises, or returns a response
\* with a status and a body.
Responses(pool) ==
    { [net |-> "error", status |-> 0,   json |-> FALSE, hasData |-> FALSE, data |-> <<>>],
      [net |-> "ok",    status |-> 500, json |-> FALSE, hasData |-> FALSE, data |-> <<>>],
      [net |-> "ok",    status |-> 404, json |-> TRUE,  hasData |-> FALSE, data |-> <<>>],
      [net |-> "ok",    status |-> 200, json |-> FALSE, hasData |-> FALSE, data |-> <<>>],
      [net |-> "ok",    status |-> 200, json |-> TRUE,  hasData |-> FALSE, data |-> <<>>],
      [net |-> "ok",    status |-> 200, json |-> TRUE,  hasData |-> TRUE,  data |-> <<>>],
      [net |-> "ok",    status |-> 200, json |-> TRUE,  hasData |-> TRUE,  data |-> <<pool>>] }

\* get_historical_data: kind "raise" (an exception leaves the function),
\* "none" (return None) or "value" (return historical_data['data']).
MutGetHistoricalDataSavesEmpty(resp) ==
    IF resp.net = "error" THEN [kind |-> "raise", err |-> "ConnectionError", data |-> <<>>]
    ELSE IF resp.status # 200 THEN [kind |-> "value", err |-> "", data |-> <<0>>]
    ELSE IF ~resp.json THEN [kind |-> "raise", err |-> "JSONDecodeError", data |-> <<>>]
    ELSE IF ~resp.hasData \/ resp.data = <<>>
         THEN [kind |-> "none", err |-> "", data |-> <<>>]
    ELSE [kind |-> "value", err |-> "", data |-> resp.data]

get_historical_data(resp) ==
    IF resp.net = "error" THEN [kind |-> "raise", err |-> "ConnectionError", data |-> <<>>]
    ELSE IF resp.status # 200 THEN [kind |-> "none", err |-> "", data |-> <<>>]
    ELSE IF ~resp.json THEN [kind |-> "raise", err |-> "JSONDecodeError", data |-> <<>>]
    ELSE IF ~resp.hasData \/ resp.data = <<>>
         THEN [kind |-> "none", err |-> "", data |-> <<>>]
    ELSE [kind |-> "value", err |-> "", data |-> resp.data]

\* main, lines 39-40: the file is opened and parsed outside any try.
FetcherLoadVaults ==
    /\ pipeline = "fetcher"
    /\ pc = "start"
    /\ IF vaultsJson.status = "ok"
       THEN /\ vaults' = vaultsJson.content
            /\ pc' = "loop"
            /\ error' = error
       ELSE /\ vaults' = vaults
            /\ pc' = "crashed"
            /\ error' = Err(JsonLoadError(vaultsJson))
    /\ UNCHANGED <<pipeline, idx, envVars, visits, outFiles, exportVars,
                   validatorVars, exporterVars>>

\* main, lines 42-53: one iteration of the loop over the vaults.
FetcherProcessVault ==
    /\ pipeline = "fetcher"
    /\ pc = "loop"
    /\ idx <= Len(vaults)
    /\ \E resp \in Responses(vaults[idx].pool) :
         LET vault == vaults[idx]
             r == get_historical_data(resp)
         IN  CASE r.kind = "raise" ->
                    /\ pc' = "crashed"
                    /\ error' = Err(r.err)
                    /\ idx' = idx
                    /\ outFiles' = outFiles
                    /\ visits' = Append(visits, [resp |-> resp, wrote |-> FALSE])
               [] r.kind = "value" ->
                    /\ pc' = "loop"
                    /\ error' = error
                    /\ idx' = idx + 1
                    /\ outFiles' = [outFiles EXCEPT ![vault.name] =
                                        [by |-> idx, data |-> r.data]]
                    /\ visits' = Append(visits, [resp |-> resp, wrote |-> TRUE])
               [] OTHER ->
                    /\ pc' = "loop"
                    /\ error' = error
                    /\ idx' = idx + 1
                    /\ outFiles' = outFiles
                    /\ visits' = Append(visits, [resp |-> resp, wrote |-> FALSE])
    /\ UNCHANGED <<pipeline, envVars, vaults, exportVars, validatorVars,
                   exporterVars>>

\* The loop is exhausted and main returns.
FetcherFinish ==
    /\ pipeline = "fetcher"
    /\ pc = "loop"
    /\ idx > Len(vaults)
    /\ pc' = "done"
    /\ UNCHANGED <<pipeline, error, idx, envVars, fetcherVars, exportVars,
                   validatorVars, exporterVars>>

NextFetcher == FetcherLoadVaults \/ FetcherProcessVault \/ FetcherFinish

(* ======================================================================= *)
(* Query-export pipeline (src/dune_to_sheets.py)                           *)
(* ======================================================================= *)
\* pipeline = "export" is main: the four configured queries, cached mode
\* (main passes no execute_fresh, so it is False).  pipeline = "query" is one
\* call of DuneToCSV.query_to_csv by a caller, in either mode.
QueryIds(pl) == IF pl = "export" THEN [i \in 1..NumQueries |-> i] ELSE <<1>>

ExecStates == {"EXECUTING", "PENDING", "COMPLETED", "FAILED", "CANCELLED"}

Waiting == {"EXECUTING", "PENDING"}

\* The rows of a result payload: data.get("result", {}).get("rows", [])
RowSets(qid) == {<<>>, <<qid>>}

\* An HTTP exchange either fails (the request raises, or raise_for_status
\* does) or delivers its decoded body.
HttpOutcomes == {"error", "ok"}

\* The branch of the poll loop, lines 62-67.
MutPollBranchGivesUpOnPending(state) ==
    IF state = "EXECUTING" THEN "sleep"
    ELSE IF state = "COMPLETED" THEN "break"
    ELSE "raise"

MutPollBranchBreaksOnAnyFinal(state) ==
    IF state = "EXECUTING" \/ state = "PENDING" THEN "sleep"
    ELSE "break"

PollBranch(state) ==
    IF state = "EXECUTING" \/ state = "PENDING" THEN "sleep"
    ELSE IF state = "COMPLETED" THEN "break"
    ELSE "raise"

\* Where an exception raised inside query_to_csv lands.  In main the try
\* statement (lines 166-175) encloses the whole for loop: the handler prints
\* the error and main returns.  A direct caller sees the exception.
AfterQueryError(pl) == IF pl = "export" THEN "done" ELSE "raised"

\* Effects of an exception leaving query_to_csv for the query at idx.
QueryRaises(e) ==
    /\ pc' = AfterQueryError(pipeline)
    /\ error' = e
    /\ idx' = idx
    /\ queryLog' = Append(queryLog, "raised")
    /\ csvFiles' = csvFiles

\* Lines 120-136 of query_to_csv, given the DataFrame's rows.
SaveRows(rows) ==
    IF rows = <<>>
    THEN QueryRaises(Err("No data returned from Dune query"))
    ELSE /\ pc' = "query"
         /\ error' = error
         /\ idx' = idx + 1
         /\ queryLog' = Append(queryLog, "saved")
         /\ csvFiles' = [csvFiles EXCEPT ![QueryIds(pipeline)[idx]] = rows]

\* main, lines 156-161.
MutExportStartSkipsKeyCheck ==
    /\ pipeline = "export"
    /\ pc = "start"
    /\ pc' = "query"
    /\ UNCHANGED <<pipeline, error, idx, envVars, fetcherVars, exportVars,
                   validatorVars, exporterVars>>

ExportStart ==
    /\ pipeline = "export"
    /\ pc = "start"
    /\ IF apiKeySet
       THEN pc' = "query" /\ error' = error
       ELSE pc' = "crashed"
            /\ error' = Err("DUNE_API_KEY environment variable not set")
    /\ UNCHANGED <<pipeline, idx, envVars, fetcherVars, exportVars,
                   validatorVars, exporterVars>>

\* query_to_csv with execute_fresh False: get_query_results, then lines
\* 120-136.
CachedQuery ==
    /\ pipeline \in {"export", "query"}
    /\ pc = "query"
    /\ idx <= Len(QueryIds(pipeline))
    /\ ~fresh
    /\ reqLog' = <<"latest">>
    /\ \E http \in HttpOutcomes, rows \in RowSets(QueryIds(pipeline)[idx]) :
         IF http = "error"
         THEN rows = <<>> /\ QueryRaises(Err("HTTPError"))
         ELSE SaveRows(rows)
    /\ UNCHANGED <<pipeline, envVars, fetcherVars, fresh, polls, lastPoll,
                   remote, validatorVars, exporterVars>>

\* execute_query, lines 42-55: the POST that starts the execution.
StartExecution ==
    /\ pipeline \in {"export", "query"}
    /\ pc = "query"
    /\ idx <= Len(QueryIds(pipeline))
    /\ fresh
    /\ reqLog' = <<"start">>
    /\ polls' = 0
    /\ lastPoll' = ""
    /\ \E r \in {"error", "no_execution_id", "ok"} :
         CASE r = "error" ->
                QueryRaises(Err("HTTPError")) /\ remote' = remote
           [] r = "no_execution_id" ->
                QueryRaises(Err("Failed to start query execution"))
                /\ remote' = remote
           [] OTHER ->
                /\ pc' = "poll"
                /\ remote' = "PENDING"
                /\ UNCHANGED <<error, idx, queryLog, csvFiles>>
    /\ UNCHANGED <<pipeline, envVars, fetcherVars, fresh, validatorVars,
                   exporterVars>>

\* The remote execution moves on; a state other than EXECUTING and PENDING
\* is final.
RemoteStep ==
    /\ pc = "poll"
    /\ remote \in Waiting
    /\ \E s \in ExecStates \ {remote} : remote' = s
    /\ UNCHANGED <<pipeline, pc, error, idx, envVars, fetcherVars, fresh,
                   reqLog, polls, lastPoll, queryLog, csvFiles, validatorVars,
                   exporterVars>>

\* One pass of the while True loop, lines 56-67.
PollStatus ==
    /\ pc = "poll"
    /\ polls' = Min(polls + 1, MaxPolls)
    /\ reqLog' = IF polls < MaxPolls THEN Append(reqLog, "status") ELSE reqLog
    /\ \E http \in HttpOutcomes :
         IF http = "error"
         THEN lastPoll' = "http_error" /\ QueryRaises(Err("HTTPError"))
         ELSE /\ lastPoll' = remote
              /\ CASE PollBranch(remote) = "sleep" ->
                        UNCHANGED <<pc, error, idx, queryLog, csvFiles>>
                   [] PollBranch(remote) = "break" ->
                        pc' = "results"
                        /\ UNCHANGED <<error, idx, queryLog, csvFiles>>
                   [] OTHER ->
                        QueryRaises([msg |-> "Query execution failed with state",
                                     state |-> remote])
    /\ UNCHANGED <<pipeline, envVars, fetcherVars, fresh, remote,
                   validatorVars, exporterVars>>

\* execute_query, lines 69-79, then query_to_csv, lines 120-136.
GetResults ==
    /\ pc = "results"
    /\ reqLog' = Append(reqLog, "results")
    /\ \E http \in HttpOutcomes, rows \in RowSets(QueryIds(pipeline)[idx]) :
         IF http = "error"
         THEN rows = <<>> /\ QueryRaises(Err("HTTPError"))
         ELSE SaveRows(rows)
    /\ UNCHANGED <<pipeline, envVars, fetcherVars, fresh, polls, lastPoll,
                   remote, validatorVars, exporterVars>>

\* The for loop of main is exhausted, or the direct call has returned.
ExportFinish ==
    /\ pipeline \in {"export", "query"}
    /\ pc = "query"
    /\ idx > Len(QueryIds(pipeline))
    /\ pc' = "done"
    /\ UNCHANGED <<pipeline, error, idx, envVars, fetcherVars, exportVars,
                   validatorVars, exporterVars>>

NextExport ==
    \/ ExportStart
    \/ CachedQuery
    \/ StartExecution
    \/ RemoteStep
    \/ PollStatus
    \/ GetResults
    \/ ExportFinish

(* ======================================================================= *)
(* CSVExporter on one file name (src/dune_to_sheets.py, lines 81-103)      *)
(* ======================================================================= *)
\* A DataFrame: its number of columns and its rows.
DataFrames == {[ncols |-> c, rows |-> r] : c \in {1, 2}, r \in SeqsUpTo({1, 2}, 1)}

HeaderLine(df) == [kind |-> "header", val |-> df.ncols]

RowLines(df) == [i \in 1..Len(df.rows) |-> [kind |-> "row", val |-> df.rows[i]]]

\* DataFrame.to_csv(..., header=header, index=False): the lines written.
ToCsv(df, header) ==
    (IF header THEN <<HeaderLine(df)>> ELSE <<>>) \o RowLines(df)

\* save_dataframe: mode 'w', the file is replaced.
save_dataframe(file, df) == [exists |-> TRUE, lines |-> ToCsv(df, TRUE)]

\* append_dataframe: the header is written when the file does not exist.
MutAppendAlwaysWritesHeader(file, df) ==
    [exists |-> TRUE, lines |-> file.lines \o ToCsv(df, TRUE)]

append_dataframe(file, df) ==
    LET write_header == ~file.exists
    IN  [exists |-> TRUE, lines |-> file.lines \o ToCsv(df, write_header)]

SaveDataframe ==
    /\ pipeline = "exporter"
    /\ Len(calls) < MaxCalls
    /\ \E df \in DataFrames :
         /\ target' = save_dataframe(target, df)
         /\ calls' = Append(calls, [op |-> "save", df |-> df])
    /\ UNCHANGED <<pipeline, pc, error, idx, envVars, fetcherVars, exportVars,
                   validatorVars>>

AppendDataframe ==
    /\ pipeline = "exporter"
    /\ Len(calls) < MaxCalls
    /\ \E df \in DataFrames :
         /\ target' = append_dataframe(target, df)
         /\ calls' = Append(calls, [op |-> "append", df |-> df])
    /\ UNCHANGED <<pipeline, pc, error, idx, envVars, fetcherVars, exportVars,
                   validatorVars>>

NextExporter == SaveDataframe \/ AppendDataframe

(* ======================================================================= *)
(* Cross-source validator (src/validation.py)                              *)
(* ======================================================================= *)
FileNames == {"f1", "f2"}

\* A date cell holds a timestamp in ticks, or BadDate when pd.to_datetime
\* cannot parse it.  A calendar day has TicksPerDay ticks.
TicksPerDay == 2

Stamps == {0, 1, 2}

Values == {1, 2}

\* pd.to_datetime(...).dt.date: the time of day is dropped.
DateOf(ts) == ts \div TicksPerDay

\* A value of a series after aggregation is a fraction <<numerator,
\* denominator>> in lowest terms; Null (NaN) has denominator 0.
Null == <<0, 0>>

RECURSIVE GCD(_, _)
GCD(a, b) == IF b = 0 THEN a ELSE GCD(b, a % b)

Rat(n, d) == <<n \div GCD(n, d), d \div GCD(n, d)>>

RECURSIVE SumSeq(_)
SumSeq(s) == IF s = <<>> THEN 0 ELSE Head(s) + SumSeq(Tail(s))

\* Series.mean of a group.
Mean(vals) == Rat(SumSeq(vals), Len(vals))

\* str.lower on the column names that occur.
Lower(c) ==
    CASE c = "Date" -> "date"
      [] c = "Day" -> "day"
      [] c = "TVL" -> "tvl"
      [] c = "tvlUsd" -> "tvlusd"
      [] OTHER -> c

DateCandidates == {"date", "day", "timestamp", "time"}

TvlCandidates == {"tvl", "tvl_amount_usd", "total_value_locked", "value", "tvlUsd"}

\* The two for loops of lines 73-83: the position of the first column whose
\* lower-cased name is a candidate, 0 when there is none.
FindCol(cols, candidates) ==
    LET hits == {i \in 1..Len(cols) : Lower(cols[i]) \in candidates}
    IN  IF hits = {} THEN 0 ELSE CHOOSE i \in hits : \A j \in hits : i <= j

\* A file of a data directory: absent, unreadable (pd.read_csv raises) or a
\* table with a header and rows of cells.
AbsentFile == [kind |-> "absent", cols |-> <<>>, rows |-> <<>>]

UnreadableFile == [kind |-> "unreadable", cols |-> <<>>, rows |-> <<>>]

Table(cols, rows) == [kind |-> "table", cols |-> cols, rows |-> rows]

RECURSIVE SetToSortedSeq(_)
SetToSortedSeq(S) ==
    IF S = {} THEN <<>>
    ELSE LET m == CHOOSE x \in S : \A y \in S : x <= y
         IN  <<m>> \o SetToSortedSeq(S \ {m})

\* groupby('date')[tvl].mean().reset_index(): one row per date, ascending.
MutGroupMeanKeepsSamples(samples) ==
    [i \in 1..Len(samples) |-> [date |-> samples[i].date, v |-> Rat(samples[i].v, 1)]]

GroupMean(samples) ==
    LET dates == SetToSortedSeq({samples[i].date : i \in 1..Len(samples)})
        ValsOn(d) ==
            LET OnDay(s) == s.date = d
                sel == SelectSeq(samples, OnDay)
            IN  [i \in 1..Len(sel) |-> sel[i].v]
    IN  [k \in 1..Len(dates) |-> [date |-> dates[k], v |-> Mean(ValsOn(dates[k]))]]

None == [ok |-> FALSE, rows |-> <<>>]

\* extract_tvl_data, lines 61-115.
extract_tvl_data(csv) ==
    IF csv.kind # "table" THEN None
    ELSE LET date_col == FindCol(csv.cols, DateCandidates)
             tvl_col == FindCol(csv.cols, {Lower(c) : c \in TvlCandidates})
         IN  IF date_col = 0 THEN None
             ELSE IF tvl_col = 0 THEN None
             ELSE IF \E i \in 1..Len(csv.rows) : csv.rows[i][date_col] < 0 THEN None
             ELSE [ok |-> TRUE,
                   rows |-> GroupMean([i \in 1..Len(csv.rows) |->
                                [date |-> DateOf(csv.rows[i][date_col]),
                                 v |-> csv.rows[i][tvl_col]]])]

\* pd.merge(defillama_df, dune_df, on='date', how='outer'): every left row
\* with each right row of its date, or with a null; then the right rows whose
\* date no left row has.
RECURSIVE LeftJoin(_, _)
LeftJoin(a, b) ==
    IF a = <<>> THEN <<>>
    ELSE LET r == Head(a)
             SameDate(x) == x.date = r.date
             m == SelectSeq(b, SameDate)
         IN  (IF m = <<>>
              THEN <<[date |-> r.date, tvl_defillama |-> r.v, tvl_dune |-> Null]>>
              ELSE [j \in 1..Len(m) |->
                       [date |-> r.date, tvl_defillama |-> r.v, tvl_dune |-> m[j].v]])
             \o LeftJoin(Tail(a), b)

RightOnly(a, b) ==
    LET Unmatched(x) == \A i \in 1..Len(a) : a[i].date # x.date
        u == SelectSeq(b, Unmatched)
    IN  [j \in 1..Len(u) |->
            [date |-> u[j].date, tvl_defillama |-> Null, tvl_dune |-> u[j].v]]

OuterMerge(a, b) == LeftJoin(a, b) \o RightOnly(a, b)

\* DataFrame.sort_values('date')
RECURSIVE InsertByDate(_, _)
InsertByDate(row, s) ==
    IF s = <<>> THEN <<row>>
    ELSE IF row.date <= Head(s).date THEN <<row>> \o s
    ELSE <<Head(s)>> \o InsertByDate(row, Tail(s))

RECURSIVE SortByDate(_)
SortByDate(s) ==
    IF s = <<>> THEN <<>> ELSE InsertByDate(Head(s), SortByDate(Tail(s)))

NotNa(v) == v # Null

\* merged_df[['tvl_defillama', 'tvl_dune']].dropna()
Overlapping(merged) ==
    LET Both(r) == NotNa(r.tvl_defillama) /\ NotNa(r.tvl_dune)
    IN  SelectSeq(merged, Both)

\* merged_df[['tvl_defillama', 'tvl_dune']].notna().all(axis=1).sum()
BothCount(merged) == Len(Overlapping(merged))

\* The guard of line 156.
CorrelationWanted(both_count) == both_count > 1

\* The guard of line 158, and again of line 203 in main.
MutEnoughOverlapFromOne(overlapping) == Len(overlapping) > 0

EnoughOverlap(overlapping) == Len(overlapping) > 1

\* create_validation_file, lines 117-166.  writeOk is whether to_csv
\* succeeds; corr counts the correlation lines the function prints.
create_validation_file(defillama_df, dune_df, writeOk) ==
    LET merged_df == SortByDate(OuterMerge(defillama_df.rows, dune_df.rows))
        both_count == BothCount(merged_df)
    IN  IF ~writeOk
        THEN [ok |-> FALSE, merged |-> <<>>, written |-> FALSE, both |-> 0, corr |-> 0]
        ELSE [ok |-> TRUE, merged |-> merged_df, written |-> TRUE,
              both |-> both_count,
              corr |-> IF CorrelationWanted(both_count)
                          /\ EnoughOverlap(Overlapping(merged_df))
                       THEN 1 ELSE 0]


\* A data directory: whether it exists, and the file under each name.
Dir(exists, files) == [exists |-> exists, files |-> files]

\* Path.glob("*.csv") lists a directory in no particular order.
GlobOrders(dir) ==
    LET present == {n \in FileNames : dir.files[n].kind # "absent"}
    IN  {s \in [1..Cardinality(present) -> present] :
            \A i, j \in 1..Cardinality(present) : i # j => s[i] # s[j]}

\* find_matching_files, lines 23-59, for one order of the glob.
find_matching_files(defillama_dir, dune_dir, globOrder) ==
    IF ~defillama_dir.exists THEN <<>>
    ELSE IF ~dune_dir.exists THEN <<>>
    ELSE LET InDune(n) == dune_dir.files[n].kind # "absent"
         IN  SelectSeq(globOrder, InDune)

\* What main does once a pair's extraction failed for either file
\* (lines 196, 206-207): "skip" the pair; "merge" otherwise.
MutPairDecisionNeedsOne(defillama_df, dune_df) ==
    IF defillama_df.ok \/ dune_df.ok THEN "merge" ELSE "skip"

PairDecision(defillama_df, dune_df) ==
    IF defillama_df.ok /\ dune_df.ok THEN "merge" ELSE "skip"

\* main, lines 172-174.
ValidatorLoadVaults ==
    /\ pipeline = "validator"
    /\ pc = "start"
    /\ LET r == load_morpho_vaults(vaultsJson)
       IN  vaults' = r.vaults /\ error' = r.printed
    /\ pc' = "find"
    /\ UNCHANGED <<pipeline, idx, envVars, visits, outFiles, exportVars,
                   validatorVars, exporterVars>>

\* main, lines 176-183.
ValidatorFindPairs ==
    /\ pipeline = "validator"
    /\ pc = "find"
    /\ \E globOrder \in GlobOrders(defillamaDir) :
         pairs' = find_matching_files(defillamaDir, duneDir, globOrder)
    /\ pc' = IF pairs' = <<>> THEN "done" ELSE "loop"
    /\ UNCHANGED <<pipeline, error, idx, envVars, fetcherVars, exportVars,
                   defillamaDir, duneDir, pairLog, validationFiles,
                   exporterVars>>

\* main, lines 185-207: one iteration of the loop over the pairs.
ValidatorProcessPair ==
    /\ pipeline = "validator"
    /\ pc = "loop"
    /\ idx <= Len(pairs)
    /\ \E writeOk \in BOOLEAN :
         LET filename == pairs[idx]
             defillama_df == extract_tvl_data(defillamaDir.files[filename])
             dune_df == extract_tvl_data(duneDir.files[filename])
         IN  IF PairDecision(defillama_df, dune_df) = "merge"
             THEN LET validation_df ==
                          create_validation_file(defillama_df, dune_df, writeOk)
                      mainCorr ==
                          IF validation_df.ok
                             /\ EnoughOverlap(Overlapping(validation_df.merged))
                          THEN 1 ELSE 0
                  IN  /\ validationFiles' =
                            IF validation_df.written
                            THEN [validationFiles EXCEPT ![filename] =
                                     [exists |-> TRUE, rows |-> validation_df.merged]]
                            ELSE validationFiles
                      /\ pairLog' = Append(pairLog,
                            [filename |-> filename, skipped |-> FALSE,
                             created |-> validation_df.ok,
                             merged |-> validation_df.merged,
                             both |-> validation_df.both,
                             corr |-> validation_df.corr + mainCorr])
             ELSE /\ writeOk
                  /\ validationFiles' = validationFiles
                  /\ pairLog' = Append(pairLog,
                        [filename |-> filename, skipped |-> TRUE,
                         created |-> FALSE, merged |-> <<>>, both |-> 0,
                         corr |-> 0])
    /\ idx' = idx + 1
    /\ UNCHANGED <<pipeline, pc, error, envVars, fetcherVars, exportVars,
                   defillamaDir, duneDir, pairs, exporterVars>>

\* The loop is exhausted and main returns.
ValidatorFinish ==
    /\ pipeline = "validator"
    /\ pc = "loop"
    /\ idx > Len(pairs)
    /\ pc' = "done"
    /\ UNCHANGED <<pipeline, error, idx, envVars, fetcherVars, exportVars,
                   validatorVars, exporterVars>>

NextValidator ==
    \/ ValidatorLoadVaults
    \/ ValidatorFindPairs
    \/ ValidatorProcessPair
    \/ ValidatorFinish

(* ======================================================================= *)
(* Initial states and specifications                                       *)
(* ======================================================================= *)
\* Sample files of the data directories: two well-formed tables, a table
\* without a date column, one without a value column, one whose date does
\* not parse, and a file pd.read_csv rejects.
SampleFiles ==
    { AbsentFile,
      UnreadableFile,
      Table(<<"timestamp", "tvlUsd", "apy">>, << <<0, 2, 9>>, <<1, 1, 9>>, <<2, 2, 9>> >>),
      Table(<<"Day", "TVL">>, << <<0, 1>>, <<2, 2>> >>),
      Table(<<"block", "tvl">>, << <<0, 1>> >>),
      Table(<<"date", "apy">>, << <<0, 1>> >>),
      Table(<<"date", "tvl">>, << <<0, 1>>, <<-1, 2>> >>) }

SampleDirs ==
    {Dir(FALSE, [n \in FileNames |-> AbsentFile])}
    \cup {Dir(TRUE, f) : f \in [FileNames -> SampleFiles]}

EmptyDir == Dir(TRUE, [n \in FileNames |-> AbsentFile])

\* The rows of a two-column source file of the merge specification: at least
\* one row (the fetcher writes a file only for a non-empty series, and
\* query_to_csv raises on an empty result), in timestamp order as both
\* providers export them (neither groupby nor merge looks at the order of a
\* file's rows).
SourceRows ==
    {s \in SeqsUpTo({<<ts, v>> : ts \in Stamps, v \in Values}, MaxRows) :
        /\ s # <<>>
        /\ \A i \in 1..(Len(s) - 1) : s[i][1] <= s[i + 1][1]}

OneFile(csv) == Dir(TRUE, [n \in FileNames |-> IF n = "f1" THEN csv ELSE AbsentFile])

InitState ==
    /\ pc = IF pipeline = "query" THEN "query" ELSE "start"
    /\ error = NoError
    /\ idx = 1
    /\ vaults = <<>>
    /\ visits = <<>>
    /\ outFiles = [n \in VaultNames |-> NoFile]
    /\ reqLog = <<>>
    /\ polls = 0
    /\ lastPoll = ""
    /\ remote = "none"
    /\ queryLog = <<>>
    /\ csvFiles = [q \in 1..NumQueries |-> NoFile]
    /\ pairs = <<>>
    /\ pairLog = <<>>
    /\ validationFiles = [n \in FileNames |-> [exists |-> FALSE, rows |-> <<>>]]
    /\ target = [exists |-> FALSE, lines |-> <<>>]
    /\ calls = <<>>

InitFetcher ==
    /\ pipeline = "fetcher"
    /\ apiKeySet = FALSE
    /\ vaultsJson \in VaultsJsonStates
    /\ fresh = FALSE
    /\ defillamaDir = EmptyDir
    /\ duneDir = EmptyDir
    /\ InitState

InitExport ==
    /\ pipeline \in {"export", "query"}
    /\ apiKeySet \in (IF pipeline = "export" THEN BOOLEAN ELSE {TRUE})
    /\ vaultsJson = [status |-> "ok", content |-> <<>>]
    /\ fresh \in (IF pipeline = "export" THEN {FALSE} ELSE BOOLEAN)
    /\ defillamaDir = EmptyDir
    /\ duneDir = EmptyDir
    /\ InitState

InitValidator ==
    /\ pipeline = "validator"
    /\ apiKeySet = FALSE
    /\ vaultsJson \in VaultsJsonSmall
    /\ fresh = FALSE
    /\ defillamaDir \in SampleDirs
    /\ duneDir \in SampleDirs
    /\ InitState

InitMerge ==
    /\ pipeline = "validator"
    /\ apiKeySet = FALSE
    /\ vaultsJson = [status |-> "ok", content |-> <<>>]
    /\ fresh = FALSE
    /\ \E rows \in SourceRows :
         defillamaDir = OneFile(Table(<<"timestamp", "tvlUsd">>, rows))
    /\ \E rows \in SourceRows :
         duneDir = OneFile(Table(<<"Day", "TVL">>, rows))
    /\ InitState

InitExporter ==
    /\ pipeline = "exporter"
    /\ apiKeySet = FALSE
    /\ vaultsJson = [status |-> "ok", content |-> <<>>]
    /\ fresh = FALSE
    /\ defillamaDir = EmptyDir
    /\ duneDir = EmptyDir
    /\ InitState

Init == InitFetcher \/ InitExport \/ InitValidator \/ InitExporter

Next == NextFetcher \/ NextExport \/ NextValidator \/ NextExporter

Spec == Init /\ [][Next]_vars

SpecFetcher == InitFetcher /\ [][NextFetcher]_vars

SpecExport == InitExport /\ [][NextExport]_vars

\* The poll loop runs on: after time.sleep(5) the next status request is
\* always issued.
LiveExport == InitExport /\ [][NextExport]_vars /\ WF_vars(PollStatus)

SpecValidator == InitValidator /\ [][NextValidator]_vars

SpecMerge == InitMerge /\ [][NextValidator]_vars

SpecExporter == InitExporter /\ [][NextExporter]_vars

(* ======================================================================= *)
(* Properties                                                              *)
(* ======================================================================= *)
Range(s) == {s[i] : i \in 1..Len(s)}

(* ------------------------------- C1 ------------------------------------ *)
\* C1: in main's batch over the configured query ids, a query whose
\* processing raises aborts only that query, so when main has finished every
\* configured query id has been processed.
C1_ErrorAbortsOnlyThatQuery ==
    (pipeline = "export" /\ pc = "done") => Len(queryLog) = NumQueries

(* ------------------------------- C2 ------------------------------------ *)
FatalCondition ==
    \/ pipeline = "export" /\ ~apiKeySet
    \/ pipeline \in {"fetcher", "validator"} /\ vaultsJson.status # "ok"

NoItemWork ==
    /\ visits = <<>>
    /\ outFiles = [n \in VaultNames |-> NoFile]
    /\ reqLog = <<>>
    /\ queryLog = <<>>
    /\ csvFiles = [q \in 1..NumQueries |-> NoFile]
    /\ pairs = <<>>
    /\ pairLog = <<>>
    /\ validationFiles = [n \in FileNames |-> [exists |-> FALSE, rows |-> <<>>]]

\* C2 as stated: in every pipeline a fatal condition (API key absent,
\* morpho_vaults.json missing or invalid) stops the run before any item is
\* processed: no vault fetched, no query requested, no pair discovered,
\* extracted or merged.
C2_FatalStopsEveryPipeline ==
    FatalCondition =>
        /\ pc \notin {"loop", "query", "poll", "results"}
        /\ NoItemWork

\* C2 amended: the fetcher and the query export stop on their fatal
\* condition before any item, with the error raised; the validator reports a
\* missing or invalid morpho_vaults.json, takes the vault list to be empty
\* and never stops for it.
C2_FatalStopsFetcherAndExport ==
    /\ (FatalCondition /\ pipeline \in {"fetcher", "export"}) =>
          /\ pc \in {"start", "crashed"}
          /\ NoItemWork
          /\ pc = "crashed" =>
                error = IF pipeline = "export"
                        THEN Err("DUNE_API_KEY environment variable not set")
                        ELSE Err(JsonLoadError(vaultsJson))
    /\ (FatalCondition /\ pipeline = "validator") =>
          /\ pc # "crashed"
          /\ pc # "start" =>
                (error = Err(JsonLoadError(vaultsJson)) /\ vaults = <<>>)

C2_Witness ==
    /\ pipeline = "export"
    /\ ~apiKeySet
    /\ pc = "crashed"

(* ------------------------------- C3 ------------------------------------ *)
\* The fetch returned a non-200 status, or a payload without data.
NoDataResponse(resp) ==
    /\ resp.net = "ok"
    /\ \/ resp.status # 200
       \/ resp.json /\ (~resp.hasData \/ resp.data = <<>>)

\* C3: visiting a vault whose fetch returns a non-200 status, or a payload
\* whose data field is absent or empty, leaves every output file as it was
\* and moves the loop to the next vault; a run that reaches the end of main
\* has visited every vault of the list.
C3_NoDataSkipsVault ==
    /\ [][(visits' # visits /\ NoDataResponse(Last(visits').resp)) =>
            /\ outFiles' = outFiles
            /\ ~Last(visits').wrote
            /\ pc' = "loop"
            /\ idx' = idx + 1]_vars
    /\ [](pc = "done" => Len(visits) = Len(vaults))

C3_Witness ==
    /\ pc = "done"
    /\ \E i, j \in 1..Len(visits) :
         /\ i < j
         /\ visits[i].resp.status = 500
         /\ ~visits[i].wrote
         /\ visits[j].wrote
         /\ outFiles[vaults[i].name] = NoFile
         /\ outFiles[vaults[j].name] # NoFile

(* ------------------------------- C4 ------------------------------------ *)
\* C4: a vault whose fetch fails in any way (the request raises, the body is
\* undecodable) is skipped and never aborts the batch: once the vault list is
\* loaded, the run does not end by an exception.
C4_FailedFetchNeverAborts ==
    (pipeline = "fetcher" /\ visits # <<>>) => pc # "crashed"

(* ------------------------------- C5 ------------------------------------ *)
\* C5: in fresh-execution mode the poll loop is left only on a poll that
\* reported a state other than EXECUTING and PENDING (or failed), however
\* many polls were made; it is left as soon as a poll reports such a state,
\* and so it ends once the remote execution is in such a state.
C5_PollsUntilOtherState ==
    /\ [](pc = "poll" => lastPoll \in Waiting \cup {""})
    /\ []((fresh /\ polls > 0 /\ pc # "poll") => lastPoll \notin Waiting)
    /\ []((pc = "poll" /\ remote \notin Waiting) => <>(pc # "poll"))

C5_Witness ==
    /\ pc = "poll"
    /\ polls = MaxPolls
    /\ lastPoll \in Waiting

(* ------------------------------- C6 ------------------------------------ *)
\* start-execution, then one or more status polls, then at most one
\* get-execution-results.
FreshOrder(log) ==
    \/ log = <<>>
    \/ /\ log[1] = "start"
       /\ \A i \in 2..Len(log) :
            \/ log[i] = "status"
            \/ /\ log[i] = "results"
               /\ i = Len(log)
               /\ i >= 3
               /\ log[i - 1] = "status"

\* C6: in fresh-execution mode the requests of a query are ordered start,
\* polls, results; results are requested and the file is written only after
\* a poll reported COMPLETED; a poll reporting a state that is none of
\* EXECUTING, PENDING, COMPLETED raises an error naming that state, and then
\* no results request is issued and no file is written.
C6_FreshModeOrder ==
    (pipeline = "query" /\ fresh) =>
        /\ FreshOrder(reqLog)
        /\ "results" \in Range(reqLog) => lastPoll = "COMPLETED"
        /\ csvFiles[1] # NoFile =>
              ("results" \in Range(reqLog) /\ lastPoll = "COMPLETED")
        /\ lastPoll \in ExecStates \ (Waiting \cup {"COMPLETED"}) =>
              /\ pc = "raised"
              /\ error = [msg |-> "Query execution failed with state",
                          state |-> lastPoll]
              /\ "results" \notin Range(reqLog)
              /\ csvFiles[1] = NoFile

C6_Witness ==
    /\ pipeline = "query"
    /\ fresh
    /\ lastPoll = "FAILED"
    /\ polls >= 2
    /\ pc = "raised"

(* ------------------------------- C7 ------------------------------------ *)
HasColumn(csv, candidates) ==
    \E i \in 1..Len(csv.cols) : Lower(csv.cols[i]) \in {Lower(c) : c \in candidates}

\* Extraction of this file fails: it cannot be read, has no date column, no
\* value column, or a date that does not parse.
ExtractionFails(csv) ==
    \/ csv.kind # "table"
    \/ ~HasColumn(csv, DateCandidates)
    \/ ~HasColumn(csv, TvlCandidates)
    \/ \E i \in 1..Len(csv.rows), c \in 1..Len(csv.cols) :
         Lower(csv.cols[c]) \in DateCandidates /\ csv.rows[i][c] < 0

\* C7: a failure while extracting or merging one matched pair skips only that
\* pair: a pair whose extraction fails for either file gets no validation
\* file, a pair whose merge fails gets none either, the pairs are processed
\* in order, and a run that ends has processed every matched pair.
C7_PairFailureSkipsPair ==
    pipeline = "validator" =>
        /\ pc # "crashed"
        /\ Len(pairLog) <= Len(pairs)
        /\ pc = "done" => Len(pairLog) = Len(pairs)
        /\ \A i \in 1..Len(pairLog) :
             /\ pairLog[i].filename = pairs[i]
             /\ (ExtractionFails(defillamaDir.files[pairs[i]])
                 \/ ExtractionFails(duneDir.files[pairs[i]])) =>
                    /\ pairLog[i].skipped
                    /\ ~validationFiles[pairs[i]].exists
             /\ ~pairLog[i].created => ~validationFiles[pairs[i]].exists

C7_Witness ==
    /\ pc = "done"
    /\ Len(pairLog) = 2
    /\ pairLog[1].skipped
    /\ ExtractionFails(duneDir.files[pairs[1]])
    /\ pairLog[2].created
    /\ validationFiles[pairs[2]].exists

(* ------------------------------- C8 ------------------------------------ *)
\* The calendar dates of a two-column source file, and its samples on a date.
FileDates(csv) == {csv.rows[i][1] \div TicksPerDay : i \in 1..Len(csv.rows)}

SamplesOn(csv, d) == {i \in 1..Len(csv.rows) : csv.rows[i][1] \div TicksPerDay = d}

RECURSIVE SumOver(_, _)
SumOver(csv, I) ==
    IF I = {} THEN 0
    ELSE LET i == CHOOSE x \in I : TRUE
         IN  csv.rows[i][2] + SumOver(csv, I \ {i})

\* v is the arithmetic mean of the file's samples on date d.
IsMeanOn(v, csv, d) ==
    /\ v[2] > 0
    /\ v[1] * Cardinality(SamplesOn(csv, d)) = v[2] * SumOver(csv, SamplesOn(csv, d))

MergedOk(m, A, B) ==
    /\ Len(m) = Cardinality(FileDates(A) \cup FileDates(B))
    /\ {m[i].date : i \in 1..Len(m)} = FileDates(A) \cup FileDates(B)
    /\ \A i \in 1..(Len(m) - 1) : m[i].date < m[i + 1].date
    /\ \A i \in 1..Len(m) :
         /\ IF m[i].date \in FileDates(A)
            THEN IsMeanOn(m[i].tvl_defillama, A, m[i].date)
            ELSE m[i].tvl_defillama = Null
         /\ IF m[i].date \in FileDates(B)
            THEN IsMeanOn(m[i].tvl_dune, B, m[i].date)
            ELSE m[i].tvl_dune = Null
    /\ FileDates(A) \cap FileDates(B) = {} =>
         /\ Len(m) = Cardinality(FileDates(A)) + Cardinality(FileDates(B))
         /\ \A i \in 1..Len(m) : (m[i].tvl_defillama = Null) # (m[i].tvl_dune = Null)
    /\ FileDates(A) = FileDates(B) =>
         /\ Len(m) = Cardinality(FileDates(A))
         /\ \A i \in 1..Len(m) : m[i].tvl_defillama # Null /\ m[i].tvl_dune # Null

\* C8: the merged table written for a pair has exactly one row per distinct
\* calendar date of either source, in ascending date order; a source's value
\* on a row is the mean of its samples on that date, and null when it has
\* none; so the row count is the sum of both series' row counts with exactly
\* one source populated per row when the date sets are disjoint, and the
\* number of distinct dates with both populated when they are identical.
C8_OneRowPerDate ==
    \A i \in 1..Len(pairLog) :
        pairLog[i].created =>
            /\ MergedOk(pairLog[i].merged, defillamaDir.files[pairs[i]],
                        duneDir.files[pairs[i]])
            /\ validationFiles[pairs[i]] =
                  [exists |-> TRUE, rows |-> pairLog[i].merged]

C8_Witness ==
    /\ pairLog # <<>>
    /\ pairLog[1].created
    /\ LET A == defillamaDir.files[pairs[1]]
           B == duneDir.files[pairs[1]]
       IN  /\ Len(A.rows) = 2
           /\ A.rows[1][1] # A.rows[2][1]
           /\ A.rows[1][2] # A.rows[2][2]
           /\ Cardinality(FileDates(A)) = 1
           /\ FileDates(B) \ FileDates(A) # {}
           /\ FileDates(A) \cap FileDates(B) # {}
    /\ Len(pairLog[1].merged) = 2
    /\ pairLog[1].merged[1].tvl_defillama = <<3, 2>>

(* ------------------------------- C9 ------------------------------------ *)
BothRows(m) ==
    {i \in 1..Len(m) : m[i].tvl_defillama # Null /\ m[i].tvl_dune # Null}

\* C9: for every merged pair the reported both-count is the number of merged
\* rows whose two values are both non-null, and a correlation is printed only
\* when that count is at least 2; a pair that is not merged prints none.
C9_CorrelationNeedsTwoRows ==
    \A i \in 1..Len(pairLog) :
        /\ pairLog[i].created =>
              /\ pairLog[i].both = Cardinality(BothRows(pairLog[i].merged))
              /\ pairLog[i].corr > 0 =>
                    Cardinality(BothRows(pairLog[i].merged)) >= 2
        /\ ~pairLog[i].created => pairLog[i].corr = 0

\* The scenario A = {d1, d2}, B = {d1}: both-count 1, no correlation.
C9_Witness ==
    /\ pairLog # <<>>
    /\ pairLog[1].created
    /\ Len(pairLog[1].merged) = 2
    /\ pairLog[1].merged[1].tvl_dune # Null
    /\ pairLog[1].merged[2].tvl_dune = Null
    /\ pairLog[1].both = 1
    /\ pairLog[1].corr = 0

(* ------------------------------- C10 ----------------------------------- *)
RECURSIVE AllRowLines(_)
AllRowLines(cs) ==
    IF cs = <<>> THEN <<>>
    ELSE [i \in 1..Len(Head(cs).df.rows) |->
             [kind |-> "row", val |-> Head(cs).df.rows[i]]]
         \o AllRowLines(Tail(cs))

HeaderCount(lines) ==
    Cardinality({i \in 1..Len(lines) : lines[i].kind = "header"})

\* C10: after one or more append_dataframe calls on a file that did not
\* exist, the file holds the header of the first call, then the rows of all
\* calls in call order: exactly one header line.
C10_AppendWritesOneHeader ==
    (calls # <<>> /\ \A i \in 1..Len(calls) : calls[i].op = "append") =>
        /\ target.exists
        /\ target.lines =
              <<[kind |-> "header", val |-> calls[1].df.ncols]>> \o AllRowLines(calls)
        /\ HeaderCount(target.lines) = 1

C10_Witness ==
    /\ Len(calls) >= 2
    /\ \A i \in 1..Len(calls) : calls[i].op = "append" /\ calls[i].df.rows # <<>>
    /\ calls[1].df.ncols # calls[2].df.ncols
    /\ HeaderCount(target.lines) = 1

=============================================================================
